---- MODULE Spec2Model ----
(***************************************************************************)
(* Model of the AnimateMyWorld client: the App component's pipeline        *)
(* controller (src/App.tsx: state, persona, hasKey, processImage, reset)   *)
(* and the two remote adapters (src/services/geminiService.ts:             *)
(* analyzeImage, generateAnimation).  Every await of the source is a       *)
(* separate step: the part of a handler that runs between two awaits is    *)
(* one atomic action.  Each processImage invocation is a run with its own  *)
(* locals and its own position; nothing in the source ties the shared      *)
(* state to one of them.  Runs are started through the file input          *)
(* (onChange, then reader.onload); CameraCapture's onCapture calls the     *)
(* same processImage from the same idle view.                              *)
(***************************************************************************)
EXTENDS Integers, FiniteSets, Sequences, TLC

\* ---------------------------------------------------------------- bounds
\* processImage invocations (file selections) per behaviour.
MaxRuns == 2
\* "not done" answers one job may give to status checks.
MaxTicks == 2

\* getUserMedia requests made by CameraCapture.
MaxStreams == 3

Runs == 1..MaxRuns

\* ---------------------------------------------------------------- values
\* An absent (undefined) property of a JS object.
ABSENT == "absent"
\* videoUrl absent; the object URL created by run r is the number r.
NoUrl == 0

None == <<>>
Some(x) == <<x>>

Images == {"img1", "img2"}

\* Messages a rejected remote call may carry (err.message may be empty).
RemoteMessages == {"quota exceeded", ""}

ParseErrorMessage == "Failed to parse analysis results"
NoUriMessage == "Video generation failed - no URI returned"
FallbackMessage == "Something went wrong"
TypeErrorMessage == "Cannot read properties of null"

\* The text of a generateContent response.  kind "object" is a JSON object
\* with the listed properties (ABSENT = property missing), "empty" is the
\* empty text, "garbage" is text that is not JSON, "null" is the JSON null.
Text(k, o, p, a) == [kind |-> k, objectName |-> o, personality |-> p, animationPrompt |-> a]

ResponseTexts ==
    { Text("object", "teapot", "sassy", "wiggle"),
      Text("object", "mug", "grumpy", "dance"),
      Text("object", "teapot", "sassy", ABSENT),
      Text("empty", ABSENT, ABSENT, ABSENT),
      Text("garbage", ABSENT, ABSENT, ABSENT),
      Text("null", ABSENT, ABSENT, ABSENT) }

\* What a remote call answers: a rejection with a message, or a value.
ContentResponses ==
    { [rejected |-> TRUE, msg |-> m, text |-> Text("empty", ABSENT, ABSENT, ABSENT)] : m \in RemoteMessages }
    \cup { [rejected |-> FALSE, msg |-> "", text |-> t] : t \in ResponseTexts }

\* A video operation as returned by generateVideos / getVideosOperation:
\* its done flag and whether response.generatedVideos[0].video.uri is set.
OperationResponses ==
    { [rejected |-> TRUE, msg |-> m, done |-> FALSE, uri |-> FALSE] : m \in RemoteMessages }
    \cup { [rejected |-> FALSE, msg |-> "", done |-> FALSE, uri |-> FALSE],
           [rejected |-> FALSE, msg |-> "", done |-> TRUE, uri |-> TRUE],
           [rejected |-> FALSE, msg |-> "", done |-> TRUE, uri |-> FALSE] }

\* A fetch answer: rejected (network failure) or a response with ok status
\* or a failure status.
FetchResponses ==
    { [rejected |-> TRUE, msg |-> m, ok |-> FALSE] : m \in RemoteMessages }
    \cup { [rejected |-> FALSE, msg |-> "", ok |-> b] : b \in BOOLEAN }

\* ---------------------------------------------------------------- state
VARIABLES
    state,        \* App: useState<AnimationState>
    persona,      \* App: useState<PersonaDetails | null>
    hasKey,       \* App: useState(false)
    gate,         \* the key-selection collaborator and the calls made to it
    camera,       \* CameraCapture: its stream state, effect and tracks
    runs,         \* one record per file selection / processImage invocation
    objectUrls,   \* object URLs created by URL.createObjectURL, not revoked
    sinceReset,   \* history: processImage was invoked since the last reset
    lastOp        \* history: the handler that ran last

vars == <<state, persona, hasKey, gate, camera, runs, objectUrls, sinceReset, lastOp>>

\* The value of lastOp after a handler other than reset (reset records the
\* status it was called from) and other than a step that ends in the catch
\* block of processImage (which records the run and the caught message).
Op(name) == [op |-> name, from |-> "-", run |-> 0, msg |-> "-"]

\* AnimationState, src/App.tsx:295-301 (description is never written).
IdleState == [status |-> "idle", imageUrl |-> ABSENT, videoUrl |-> NoUrl, error |-> ABSENT]

\* A run: pc is the await the invocation is suspended at ("reading": the
\* FileReader has not fired yet), image and analysis are its locals, the
\* other fields record what it has done so far.  alone: it was started from
\* idle and no reset and no other start has happened since.  lastDone and
\* noRef: the done flag of the operation received last, and whether an
\* operation was received that is done and carries no video reference.
FreshRun ==
    [pc |-> "unused", image |-> ABSENT, analysis |-> None,
     analyzerFailed |-> FALSE, genCalls |-> 0, wentGenerating |-> FALSE,
     submitDone |-> FALSE, checks |-> 0, notDone |-> 0, uriSeen |-> FALSE,
     fetchOk |-> FALSE, outcome |-> "none", alone |-> FALSE,
     analyzeCalls |-> 0, lastDone |-> FALSE, noRef |-> FALSE]

\* The key gate once hasSelectedApiKey has reported a selected key.
GatePassed ==
    [selected |-> TRUE, check |-> "done", select |-> "idle", reported |-> TRUE, opened |-> FALSE]

\* CameraCapture as mounted: stream is the stream state (0 = null), effect the
\* stream the registered effect cleanup closes over, live and orphan the
\* getUserMedia requests pending for the mounted instance and for unmounted
\* ones, tracks the streams whose tracks are running, acquired their count.
FreshCamera ==
    [stream |-> 0, effect |-> 0, live |-> 0, orphan |-> 0, tracks |-> {}, acquired |-> 0]

Init ==
    /\ state = IdleState
    /\ persona = None
    /\ hasKey = TRUE    \* Spec starts with the key gate passed (main view rendered)
    /\ gate = GatePassed
    /\ camera = FreshCamera
    /\ runs = [r \in Runs |-> FreshRun]
    /\ objectUrls = {}
    /\ sinceReset = FALSE
    /\ lastOp = Op("init")

\* ---------------------------------------------------------------- rendering
\* CameraCapture is rendered in the idle view of the main screen only
\* (App.tsx:121, 161-168).
Shown(status, key) == key /\ status = "idle"

\* The passive effect of CameraCapture (useEffect with deps [stream]) is
\* flushed: the previous cleanup runs stopCamera of the render it was created
\* in (it stops the tracks of that render's stream and calls setStream(null))
\* and the effect of the committed render is registered.
FlushEffect(cam) ==
    IF cam.effect = cam.stream
    THEN cam
    ELSE [cam EXCEPT !.tracks = @ \ {cam.effect}, !.stream = 0, !.effect = cam.stream]

\* All pending effects flushed (a flush may make the next one pending).
Settled(cam) == FlushEffect(FlushEffect(cam))

\* CameraCapture is unmounted: pending effects are flushed, the registered
\* cleanup runs, and the requests still pending belong to no mounted
\* component.  A later mount is a fresh instance (stream null, no request).
Unmounted(cam) ==
    LET c == Settled(cam) IN
    [c EXCEPT !.tracks = @ \ {c.effect}, !.stream = 0, !.effect = 0,
              !.live = 0, !.orphan = @ + c.live]

Rerendered(cam, was, is) == IF was /\ ~is THEN Unmounted(cam) ELSE cam

\* App renders with a new status: CameraCapture stays, appears or goes.
CameraAfter(status) ==
    camera' = Rerendered(camera, Shown(state.status, hasKey), Shown(status, hasKey))

\* ---------------------------------------------------------------- reset
\* (variant: only the status is reset, the held data stays)
ResetStatusOnly == [state EXCEPT !.status = "idle"]

\* reset: setState({ status: 'idle' }); setPersona(null).
ResetState == IdleState
ResetPersona == None

reset ==
    /\ hasKey
    /\ state' = ResetState
    /\ persona' = ResetPersona
    /\ CameraAfter("idle")
    /\ sinceReset' = FALSE
    /\ runs' = [r \in Runs |-> [runs[r] EXCEPT !.alone = FALSE]]
    /\ lastOp' = [Op("reset") EXCEPT !.from = state.status]
    /\ UNCHANGED <<hasKey, gate, objectUrls>>

\* ---------------------------------------------------------------- capture
\* File input onChange (rendered while hasKey and status is idle): a
\* FileReader is created and readAsDataURL starts; processImage runs when
\* its onload fires.  Run ids are handed out in order.
NextRun == CHOOSE r \in Runs : runs[r].pc = "unused" /\ \A q \in Runs : q < r => runs[q].pc # "unused"

onChange ==
    /\ hasKey
    /\ state.status = "idle"
    /\ \E r \in Runs : runs[r].pc = "unused"
    /\ \E img \in Images :
          runs' = [runs EXCEPT ![NextRun] = [@ EXCEPT !.pc = "reading", !.image = img]]
    /\ lastOp' = Op("onChange")
    /\ UNCHANGED <<state, persona, hasKey, gate, camera, objectUrls, sinceReset>>

\* ---------------------------------------------------------------- analyzeImage
\* JSON.parse(response.text || '{}'): the parsed value, or a SyntaxError.
TextOrDefault(text) ==
    IF text.kind = "empty" THEN Text("object", ABSENT, ABSENT, ABSENT) ELSE text

JSONParse(text) ==
    CASE text.kind = "object" ->
            [ok |-> TRUE,
             value |-> Some([objectName |-> text.objectName,
                             personality |-> text.personality,
                             animationPrompt |-> text.animationPrompt])]
      [] text.kind = "null" -> [ok |-> TRUE, value |-> None]
      [] OTHER -> [ok |-> FALSE, value |-> None]

\* analyzeImage: what the promise settles to for a generateContent answer.
analyzeImage(resp) ==
    IF resp.rejected
    THEN [threw |-> TRUE, msg |-> resp.msg, value |-> None]
    ELSE LET parsed == JSONParse(TextOrDefault(resp.text)) IN
         IF parsed.ok
         THEN [threw |-> FALSE, msg |-> "", value |-> parsed.value]
         ELSE [threw |-> TRUE, msg |-> ParseErrorMessage, value |-> None]

\* ---------------------------------------------------------------- processImage
\* setState({ status: 'analyzing', imageUrl: base64 }).
AnalyzingState(img) ==
    [status |-> "analyzing", imageUrl |-> img, videoUrl |-> NoUrl, error |-> ABSENT]

\* setState(prev => ({ ...prev, status: 'generating' })).
GeneratingState(prev) == [prev EXCEPT !.status = "generating"]

\* setState(prev => ({ ...prev, status: 'completed', videoUrl: video })).
CompletedState(prev, video) == [prev EXCEPT !.status = "completed", !.videoUrl = video]

\* (variant: the caught message is dropped for the fixed text)
ErrorTextAlwaysFallback(msg) == FallbackMessage

\* err.message || "Something went wrong".
ErrorText(msg) == IF msg = "" THEN FallbackMessage ELSE msg

\* catch: setState(prev => ({ ...prev, status: 'error', error: ... })).
ErrorState(prev, msg) == [prev EXCEPT !.status = "error", !.error = ErrorText(msg)]

\* The part of processImage(img) up to its first await, for the invocation
\* r: the state is set and analyzeImage issues its generateContent request.
Started(r, img) ==
    /\ state' = AnalyzingState(img)
    /\ runs' = [q \in Runs |->
                  IF q = r
                  THEN [runs[q] EXCEPT !.pc = "analyze", !.image = img, !.analyzeCalls = @ + 1,
                                       !.alone = (state.status = "idle")]
                  ELSE [runs[q] EXCEPT !.alone = FALSE]]
    /\ sinceReset' = TRUE

\* reader.onload fires: processImage(result) runs, whatever the status, up
\* to its first await, the generateContent request of analyzeImage.
processImage(r) ==
    /\ runs[r].pc = "reading"
    /\ Started(r, runs[r].image)
    /\ CameraAfter("analyzing")
    /\ lastOp' = Op("processImage")
    /\ UNCHANGED <<persona, hasKey, gate, objectUrls>>

\* The catch block of processImage, for a failure of run r with message msg.
Caught(r, msg) ==
    /\ state' = ErrorState(state, msg)
    /\ CameraAfter("error")
    /\ lastOp' = [Op("catch") EXCEPT !.run = r, !.msg = msg]
    /\ UNCHANGED <<hasKey, gate, objectUrls, sinceReset>>

\* Line 107 is reached and generateAnimation is invoked: analyzeImage did not
\* throw, and reading analysis.animationPrompt does not throw (analysis is
\* not null).
\* (variant: the failure of analyzeImage is swallowed and the run goes on)
GeneratorInvokedAlways(res) == TRUE

GeneratorInvoked(res) == ~res.threw /\ res.value # None

\* (variant: a failed analysis is asked for again)
RunRetriesAnalysis(run, res) == [run EXCEPT !.analyzeCalls = @ + 1]

\* The run whose try block was left before generateAnimation was invoked:
\* processImage returns after its catch block.
RunAfterFailedAnalysis(run, res) ==
    [run EXCEPT !.pc = "done",
                !.analyzerFailed = res.threw,
                !.wentGenerating = ~res.threw,
                !.outcome = IF res.threw THEN "analyzeError" ELSE "typeError"]

\* The generateContent answer arrives: analyzeImage settles and processImage
\* continues to its next await (generateVideos inside generateAnimation) or
\* to its catch block.
analyzeResponse(r) ==
    /\ runs[r].pc = "analyze"
    /\ \E resp \in ContentResponses :
         LET res == analyzeImage(resp) IN
         IF GeneratorInvoked(res)
         THEN /\ persona' = res.value
              /\ state' = GeneratingState(state)
              /\ CameraAfter("generating")
              /\ runs' = [runs EXCEPT ![r] = [@ EXCEPT !.pc = "submit",
                                                      !.analysis = res.value,
                                                      !.analyzerFailed = res.threw,
                                                      !.wentGenerating = TRUE,
                                                      !.genCalls = @ + 1]]
              /\ lastOp' = Op("analyzeResponse")
              /\ UNCHANGED <<hasKey, gate, objectUrls, sinceReset>>
         ELSE /\ persona' = IF res.threw THEN persona ELSE res.value
              /\ runs' = [runs EXCEPT ![r] = RunAfterFailedAnalysis(runs[r], res)]
              /\ Caught(r, IF res.threw THEN res.msg ELSE TypeErrorMessage)

\* ---------------------------------------------------------------- generateAnimation
\* (variant: the reference is read after the first answer, done or not)
LoopNeverContinues(op) == FALSE

\* while (!operation.done)
LoopContinues(op) == ~op.done

\* (variant: the missing reference is not checked)
HasDownloadLinkAlways(op) == TRUE

\* const downloadLink = operation.response?.generatedVideos?.[0]?.video?.uri;
\* if (!downloadLink) throw ...
HasDownloadLink(op) == op.uri

\* After the loop, with a downloadLink: the fetch of the video is issued.
AfterLoop(r, run) ==
    /\ runs' = [runs EXCEPT ![r] = [run EXCEPT !.pc = "fetch", !.uriSeen = TRUE]]
    /\ UNCHANGED <<state, persona, hasKey, gate, camera, objectUrls, sinceReset>>

\* The history of a run that receives the answer resp to a generateVideos or
\* getVideosOperation call.
Observed(run, resp) ==
    [run EXCEPT !.lastDone = IF resp.rejected THEN @ ELSE resp.done,
                !.noRef = @ \/ (~resp.rejected /\ resp.done /\ ~resp.uri)]

\* An operation (from generateVideos or getVideosOperation) has been
\* received by run r, whose record with the history updated is run.
OnOperation(r, run, resp, name) ==
    IF resp.rejected
    THEN /\ runs' = [runs EXCEPT ![r] = [run EXCEPT !.pc = "done",
                                                 !.outcome = IF run.pc = "submit" THEN "submitError"
                                                                                  ELSE "pollError"]]
         /\ persona' = persona
         /\ Caught(r, resp.msg)
    ELSE IF LoopContinues(resp)
    THEN /\ runs' = [runs EXCEPT ![r] = [run EXCEPT !.pc = "sleep"]]
         /\ lastOp' = Op(name)
         /\ UNCHANGED <<state, persona, hasKey, gate, camera, objectUrls, sinceReset>>
    ELSE IF ~HasDownloadLink(resp)
    THEN /\ runs' = [runs EXCEPT ![r] = [run EXCEPT !.pc = "done", !.outcome = "noUri"]]
         /\ persona' = persona
         /\ Caught(r, NoUriMessage)
    ELSE /\ AfterLoop(r, run)
         /\ lastOp' = Op(name)

\* generateVideos answers.
submitResponse(r) ==
    /\ runs[r].pc = "submit"
    /\ \E resp \in OperationResponses :
         OnOperation(r, [Observed(runs[r], resp) EXCEPT !.submitDone = (~resp.rejected /\ resp.done)],
                     resp, "submitResponse")

\* (variant: every tick issues the status check twice)
pollTimerTwice(r) ==
    /\ runs[r].pc = "sleep"
    /\ runs' = [runs EXCEPT ![r] = [@ EXCEPT !.pc = "poll", !.checks = @ + 2]]
    /\ lastOp' = Op("pollTimer")
    /\ UNCHANGED <<state, persona, hasKey, gate, camera, objectUrls, sinceReset>>

\* The 8 s timer fires: getVideosOperation is called.
pollTimer(r) ==
    /\ runs[r].pc = "sleep"
    /\ runs' = [runs EXCEPT ![r] = [@ EXCEPT !.pc = "poll", !.checks = @ + 1]]
    /\ lastOp' = Op("pollTimer")
    /\ UNCHANGED <<state, persona, hasKey, gate, camera, objectUrls, sinceReset>>

\* getVideosOperation answers.  A job gives at most MaxTicks "not done"
\* answers to status checks in the model.
pollResponse(r) ==
    /\ runs[r].pc = "poll"
    /\ \E resp \in OperationResponses :
         /\ (~resp.rejected /\ ~resp.done) => runs[r].notDone < MaxTicks
         /\ OnOperation(r, [Observed(runs[r], resp) EXCEPT
                               !.notDone = IF ~resp.rejected /\ ~resp.done THEN @ + 1 ELSE @],
                        resp, "pollResponse")

\* fetch answers: videoResponse.blob() is awaited next, whatever the status.
fetchResponse(r) ==
    /\ runs[r].pc = "fetch"
    /\ \E resp \in FetchResponses :
         IF resp.rejected
         THEN /\ runs' = [runs EXCEPT ![r] = [@ EXCEPT !.pc = "done", !.outcome = "fetchError"]]
              /\ persona' = persona
              /\ Caught(r, resp.msg)
         ELSE /\ runs' = [runs EXCEPT ![r] = [@ EXCEPT !.pc = "blob", !.fetchOk = resp.ok]]
              /\ lastOp' = Op("fetchResponse")
              /\ UNCHANGED <<state, persona, hasKey, gate, camera, objectUrls, sinceReset>>

\* blob() resolves: URL.createObjectURL(blob) is returned and processImage
\* sets the completed state.
blobResolves(r) ==
    /\ runs[r].pc = "blob"
    /\ objectUrls' = objectUrls \cup {r}
    /\ state' = CompletedState(state, r)
    /\ CameraAfter("completed")
    /\ runs' = [runs EXCEPT ![r] = [@ EXCEPT !.pc = "done", !.outcome = "completed"]]
    /\ lastOp' = Op("blobResolves")
    /\ UNCHANGED <<persona, hasKey, gate, sinceReset>>

\* blob() rejects (the body cannot be read).
blobRejects(r) ==
    /\ runs[r].pc = "blob"
    /\ \E m \in RemoteMessages :
         /\ Caught(r, m)
    /\ persona' = persona
    /\ runs' = [runs EXCEPT ![r] = [@ EXCEPT !.pc = "done", !.outcome = "blobError"]]

\* ---------------------------------------------------------------- spec
Next ==
    \/ reset
    \/ onChange
    \/ \E r \in Runs : processImage(r)
    \/ \E r \in Runs : analyzeResponse(r)
    \/ \E r \in Runs : submitResponse(r)
    \/ \E r \in Runs : pollTimer(r)
    \/ \E r \in Runs : pollResponse(r)
    \/ \E r \in Runs : fetchResponse(r)
    \/ \E r \in Runs : blobResolves(r)
    \/ \E r \in Runs : blobRejects(r)

Spec == Init /\ [][Next]_vars

\* ---------------------------------------------------------------- camera
\* stopCamera of the render that shows the stream: its tracks are stopped
\* and setStream(null) is called.
StopCamera(cam) == [cam EXCEPT !.tracks = @ \ {cam.stream}, !.stream = 0]

\* "Click to use Camera" (rendered while CameraCapture is shown and its
\* stream is null): getUserMedia is called.  At most MaxStreams requests
\* are made in the model.
startCamera ==
    /\ Shown(state.status, hasKey)
    /\ camera.stream = 0
    /\ camera.acquired + camera.live + camera.orphan < MaxStreams
    /\ camera' = [camera EXCEPT !.live = @ + 1]
    /\ lastOp' = Op("startCamera")
    /\ UNCHANGED <<state, persona, hasKey, gate, runs, objectUrls, sinceReset>>

\* getUserMedia resolves for the mounted component with a new stream, whose
\* tracks are running: setStream(s).  With an effect flush pending, either
\* the flush runs first and its setStream(null) is applied after this one,
\* or this update replaces the stream before the flush.
getUserMediaResolves ==
    /\ camera.live > 0
    /\ LET s == camera.acquired + 1
           got == [camera EXCEPT !.live = @ - 1, !.acquired = s, !.tracks = @ \cup {s}]
       IN  \/ camera' = [got EXCEPT !.stream = s]
           \/ /\ camera.effect # camera.stream
              /\ camera' = FlushEffect(got)
    /\ lastOp' = Op("getUserMediaResolves")
    /\ UNCHANGED <<state, persona, hasKey, gate, runs, objectUrls, sinceReset>>

\* getUserMedia resolves for a component that has been unmounted: its
\* setStream has no effect and no cleanup holds the stream.
getUserMediaResolvesLate ==
    /\ camera.orphan > 0
    /\ camera' = [camera EXCEPT !.orphan = @ - 1, !.acquired = @ + 1,
                                !.tracks = @ \cup {camera.acquired + 1}]
    /\ lastOp' = Op("getUserMediaResolvesLate")
    /\ UNCHANGED <<state, persona, hasKey, gate, runs, objectUrls, sinceReset>>

\* getUserMedia rejects: the catch of startCamera logs it.
getUserMediaRejects ==
    /\ \/ camera.live > 0 /\ camera' = [camera EXCEPT !.live = @ - 1]
       \/ camera.orphan > 0 /\ camera' = [camera EXCEPT !.orphan = @ - 1]
    /\ lastOp' = Op("getUserMediaRejects")
    /\ UNCHANGED <<state, persona, hasKey, gate, runs, objectUrls, sinceReset>>

\* React flushes the passive effect of the committed render.
flushEffects ==
    /\ camera.effect # camera.stream
    /\ camera' = FlushEffect(camera)
    /\ lastOp' = Op("flushEffects")
    /\ UNCHANGED <<state, persona, hasKey, gate, runs, objectUrls, sinceReset>>

\* "Snap Photo" (rendered while the stream is set): onCapture(dataUrl), that
\* is processImage up to its first await, then stopCamera(); the render
\* that follows unmounts CameraCapture.
capture ==
    /\ Shown(state.status, hasKey)
    /\ camera.stream # 0
    /\ \E r \in Runs : runs[r].pc = "unused"
    /\ \E img \in Images : Started(NextRun, img)
    /\ camera' = Unmounted(StopCamera(camera))
    /\ lastOp' = Op("capture")
    /\ UNCHANGED <<persona, hasKey, gate, objectUrls>>

\* "Cancel" (rendered while the stream is set).
stopCamera ==
    /\ Shown(state.status, hasKey)
    /\ camera.stream # 0
    /\ camera' = StopCamera(camera)
    /\ lastOp' = Op("stopCamera")
    /\ UNCHANGED <<state, persona, hasKey, gate, runs, objectUrls, sinceReset>>

\* CameraCapture with the handlers of App that mount and unmount it; the
\* awaits of a started run are those of Next.
CameraNext ==
    \/ startCamera
    \/ getUserMediaResolves
    \/ getUserMediaResolvesLate
    \/ getUserMediaRejects
    \/ flushEffects
    \/ capture
    \/ stopCamera
    \/ onChange
    \/ \E r \in Runs : processImage(r)
    \/ reset

CameraSpec == Init /\ [][CameraNext]_vars

\* ---------------------------------------------------------------- key gate
\* App as mounted: hasKey is false and the mount effect has called
\* hasSelectedApiKey; the collaborator may or may not hold a selected key.
GateInit ==
    /\ state = IdleState
    /\ persona = None
    /\ hasKey = FALSE
    /\ \E sel \in BOOLEAN :
          gate = [selected |-> sel, check |-> "pending", select |-> "idle",
                  reported |-> FALSE, opened |-> FALSE]
    /\ camera = FreshCamera
    /\ runs = [r \in Runs |-> FreshRun]
    /\ objectUrls = {}
    /\ sinceReset = FALSE
    /\ lastOp = Op("init")

\* App renders with a new hasKey: the main screen appears or goes.
CameraAfterKey(key) ==
    camera' = Rerendered(camera, Shown(state.status, hasKey), Shown(state.status, key))

\* (variant: the answer of hasSelectedApiKey is not looked at)
KeyFromCheckAlways(selected) == TRUE

\* setHasKey(!!selected)
KeyFromCheck(selected) == selected

\* hasSelectedApiKey answers the call of the mount effect.
checkKey ==
    /\ gate.check = "pending"
    /\ hasKey' = KeyFromCheck(gate.selected)
    /\ CameraAfterKey(hasKey')
    /\ gate' = [gate EXCEPT !.check = "done", !.reported = @ \/ gate.selected]
    /\ lastOp' = Op("checkKey")
    /\ UNCHANGED <<state, persona, runs, objectUrls, sinceReset>>

\* hasSelectedApiKey rejects: setHasKey is not reached.
checkKeyRejects ==
    /\ gate.check = "pending"
    /\ gate' = [gate EXCEPT !.check = "failed"]
    /\ lastOp' = Op("checkKeyRejects")
    /\ UNCHANGED <<state, persona, hasKey, camera, runs, objectUrls, sinceReset>>

\* "Select API Key" (rendered while hasKey is false): openSelectKey is
\* called.  One selector is open at a time in the model.
handleKeySelection ==
    /\ ~hasKey
    /\ gate.select = "idle"
    /\ gate' = [gate EXCEPT !.select = "open"]
    /\ lastOp' = Op("handleKeySelection")
    /\ UNCHANGED <<state, persona, hasKey, camera, runs, objectUrls, sinceReset>>

\* openSelectKey resolves, the user having chosen a key in it or not:
\* setHasKey(true).
openSelectKeyResolves ==
    /\ gate.select = "open"
    /\ \E chose \in BOOLEAN :
          gate' = [gate EXCEPT !.select = "idle", !.opened = TRUE, !.selected = @ \/ chose]
    /\ hasKey' = TRUE
    /\ CameraAfterKey(TRUE)
    /\ lastOp' = Op("openSelectKeyResolves")
    /\ UNCHANGED <<state, persona, runs, objectUrls, sinceReset>>

\* openSelectKey rejects: setHasKey is not reached.
openSelectKeyRejects ==
    /\ gate.select = "open"
    /\ gate' = [gate EXCEPT !.select = "idle"]
    /\ lastOp' = Op("openSelectKeyRejects")
    /\ UNCHANGED <<state, persona, hasKey, camera, runs, objectUrls, sinceReset>>

\* The gate and the ways into the pipeline; the awaits of a started run
\* are those of Next.
GateNext ==
    \/ checkKey
    \/ checkKeyRejects
    \/ handleKeySelection
    \/ openSelectKeyResolves
    \/ openSelectKeyRejects
    \/ onChange
    \/ \E r \in Runs : processImage(r)
    \/ reset

GateSpec == GateInit /\ [][GateNext]_vars

\* ---------------------------------------------------------------- properties
\* A processImage invocation that has not finished its awaits.
InFlight(r) == runs[r].pc \in {"analyze", "submit", "sleep", "poll", "fetch", "blob"}

NothingHeld == state = IdleState /\ persona = None

\* C1: after a reset made while a call of a run was outstanding, and with no
\* new start, the controller stays idle holding no image, persona, video or
\* error, however late the answer to that call arrives.
C1_StaleResponseIgnored == ~sinceReset => NothingHeld

\* C2: right after reset, from whatever status it was called, the status is
\* idle and imageUrl, videoUrl, error and persona are all absent.
C2_ResetYieldsIdle == lastOp.op = "reset" => NothingHeld

C2_Witness ==
    /\ lastOp.op = "reset"
    /\ lastOp.from = "completed"
    /\ \E r \in Runs : InFlight(r)

\* C3: when the generator call of a run succeeds, the run having been started
\* from idle with no reset and no other start since, the controller is in
\* status completed holding the run's image, the video the generator
\* returned and a persona with the objectName the analyzer returned.
C3_RunEndsCompleted ==
    [][\A r \in Runs :
         (blobResolves(r) /\ runs[r].alone) =>
            /\ state'.status = "completed"
            /\ state'.imageUrl = runs[r].image
            /\ state'.videoUrl = r
            /\ persona' # None
            /\ persona'[1].objectName = runs[r].analysis[1].objectName]_vars

\* C4: a run whose analyzer call failed never invokes generateAnimation and
\* never sets status generating.
C4_NoGeneratorAfterAnalyzerFailure ==
    \A r \in Runs :
        runs[r].analyzerFailed =>
            /\ runs[r].genCalls = 0
            /\ ~runs[r].wentGenerating
            /\ runs[r].pc = "done"
            /\ runs[r].checks = 0

C4_Witness ==
    \E r \in Runs : runs[r].analyzerFailed /\ state.status = "error" /\ state.error = ParseErrorMessage

\* A persona object with all three fields present and non-empty.
Complete(p) ==
    /\ p.objectName \notin {ABSENT, ""}
    /\ p.personality \notin {ABSENT, ""}
    /\ p.animationPrompt \notin {ABSENT, ""}

\* C5: analyzeImage never returns a persona lacking one of objectName,
\* personality, animationPrompt, so no run goes on to generating or calls
\* generateAnimation with one.
C5_IncompletePersonaRejected ==
    \A r \in Runs :
        (runs[r].analysis # None /\ ~Complete(runs[r].analysis[1])) =>
            /\ runs[r].genCalls = 0
            /\ ~runs[r].wentGenerating

\* C6: at most one processImage invocation is in flight.
C6_OneRunInFlight == Cardinality({r \in Runs : InFlight(r)}) <= 1

\* The status a started run, taken alone, puts the controller in.
StatusOf(run) ==
    CASE run.pc = "analyze" -> "analyzing"
      [] run.pc \in {"submit", "sleep", "poll", "fetch", "blob"} -> "generating"
      [] run.pc = "done" /\ run.outcome = "completed" -> "completed"
      [] OTHER -> "error"

\* C7: while the latest start (made from idle, with no reset since) is the
\* current run, the status, image, persona, video and error held are those
\* of that run only.
C7_OnlyCurrentRunHeld ==
    \A r \in Runs :
        runs[r].alone =>
            /\ state.status = StatusOf(runs[r])
            /\ state.imageUrl = runs[r].image
            /\ persona \in {None, runs[r].analysis}
            /\ state.videoUrl \in {NoUrl, r}
            /\ (state.error # ABSENT => state.status = "error")

\* C8: a processImage call made while the status is not idle is refused: it
\* changes neither state nor persona and issues no remote call.
C8_StartOnlyFromIdle ==
    [][\A r \in Runs :
         (processImage(r) /\ state.status # "idle") =>
            /\ state' = state
            /\ persona' = persona
            /\ runs'[r].pc # "analyze"]_vars

\* The forward steps of the status.
ForwardSteps ==
    { <<"idle", "analyzing">>, <<"analyzing", "generating">>,
      <<"generating", "completed">>, <<"analyzing", "error">>,
      <<"generating", "error">> }

\* C9: the status only steps forward (idle, analyzing, generating,
\* completed, or error from analyzing or generating), and only reset leads
\* to idle.
C9_StatusMovesForward ==
    [][\/ state'.status = state.status
       \/ state'.status = "idle" /\ lastOp'.op = "reset"
       \/ <<state.status, state'.status>> \in ForwardSteps]_vars

\* C10: a generateAnimation call whose job was not done on submission,
\* answered "not done" to N status checks and then done with a video
\* reference, has made exactly N+1 status checks when it leaves the loop,
\* and it returns a video once the download of the reference has resolved.
C10_PollsExactlyNPlusOne ==
    \A r \in Runs :
        (runs[r].uriSeen /\ ~runs[r].submitDone) =>
            /\ runs[r].checks = runs[r].notDone + 1
            /\ runs[r].outcome \in {"none", "completed", "fetchError", "blobError"}
            /\ (runs[r].pc = "done" /\ runs[r].outcome \notin {"fetchError", "blobError"}
                  => runs[r].outcome = "completed" /\ r \in objectUrls)

C10_Witness ==
    \E r \in Runs :
        /\ runs[r].outcome = "completed"
        /\ runs[r].notDone = MaxTicks
        /\ runs[r].checks = MaxTicks + 1

\* C11: a run whose job reported done without a video reference has failed
\* with the "no URI" error: it made no status check after that answer and no
\* media fetch, created no object URL, and its catch block left the
\* controller in status error with that message; status completed always
\* carries a video URL.
C11_DoneWithoutReferenceFails ==
    /\ \A r \in Runs :
          runs[r].noRef =>
              /\ runs[r].pc = "done"
              /\ runs[r].outcome = "noUri"
              /\ runs[r].lastDone
              /\ runs[r].checks = runs[r].notDone + (IF runs[r].submitDone THEN 0 ELSE 1)
              /\ ~runs[r].uriSeen
              /\ r \notin objectUrls
    /\ (lastOp.op = "catch" /\ runs[lastOp.run].noRef) =>
          state.status = "error" /\ state.error = NoUriMessage
    /\ state.status = "completed" => state.videoUrl # NoUrl

C11_Witness ==
    /\ lastOp.op = "catch"
    /\ runs[lastOp.run].noRef
    /\ runs[lastOp.run].notDone = 1
    /\ state.status = "error"

\* C12 (as stated): a failure caught by processImage leaves status error
\* with the error field exactly the failure's message.
C12_ErrorIsExactlyTheMessage ==
    lastOp.op = "catch" => state.status = "error" /\ state.error = lastOp.msg

\* C12 (amended): a failure caught by processImage leaves status error with
\* the error field the failure's message, or "Something went wrong" when
\* that message is empty; the run has returned (processImage does not
\* reject).
C12_ErrorIsMessageOrFallback ==
    lastOp.op = "catch" =>
        /\ state.status = "error"
        /\ state.error = IF lastOp.msg = "" THEN "Something went wrong" ELSE lastOp.msg
        /\ runs[lastOp.run].pc = "done"

C12_Witness ==
    /\ lastOp.op = "catch"
    /\ lastOp.msg = ""
    /\ runs[lastOp.run].alone
    /\ runs[lastOp.run].outcome = "pollError"
    /\ state.error = "Something went wrong"

\* C14: the held data matches the status: idle holds no image, persona or
\* video; analyzing an image only; generating an image and a persona;
\* completed an image, a persona and a video; a video is held only in
\* status completed.
C14_HeldDataMatchesStatus ==
    /\ state.status = "idle" =>
          state.imageUrl = ABSENT /\ persona = None /\ state.videoUrl = NoUrl
    /\ state.status = "analyzing" =>
          state.imageUrl # ABSENT /\ persona = None /\ state.videoUrl = NoUrl
    /\ state.status = "generating" =>
          state.imageUrl # ABSENT /\ persona # None /\ state.videoUrl = NoUrl
    /\ state.status = "completed" =>
          state.imageUrl # ABSENT /\ persona # None /\ state.videoUrl # NoUrl
    /\ state.videoUrl # NoUrl => state.status = "completed"

\* C15: a started run has called analyzeImage exactly once and
\* generateVideos at most once, and a run that has failed has returned,
\* having made no remote call beyond the one that failed.
C15_FailuresNotRetried ==
    \A r \in Runs :
        /\ runs[r].analyzeCalls = IF runs[r].pc \in {"unused", "reading"} THEN 0 ELSE 1
        /\ runs[r].genCalls <= 1
        /\ runs[r].outcome \notin {"none", "completed"} => runs[r].pc = "done"
        /\ runs[r].outcome \in {"analyzeError", "typeError"} =>
              runs[r].genCalls = 0 /\ runs[r].checks = 0 /\ ~runs[r].uriSeen
        /\ runs[r].outcome = "submitError" => runs[r].checks = 0 /\ ~runs[r].uriSeen
        /\ runs[r].outcome = "pollError" =>
              runs[r].checks = runs[r].notDone + 1 /\ ~runs[r].uriSeen

C15_Witness ==
    \E r \in Runs :
        /\ runs[r].outcome = "analyzeError"
        /\ runs[r].analyzeCalls = 1
        /\ runs[r].genCalls = 0
        /\ state.status = "error"

\* Run r was started from idle, nothing was reset or started since, and no
\* other run is or was in progress.
Sole(r) == runs[r].alone /\ \A q \in Runs \ {r} : runs[q].pc \in {"unused", "reading"}

\* C16: a run reads the video reference, fetches or returns only after an
\* operation that reports done; while the operation received last is not
\* done and no call has failed it is sleeping or checking, the next check
\* is always possible, and the status stays generating if no reset and no
\* other run intervened.
C16_LoopEndsOnlyOnDone ==
    \A r \in Runs :
        /\ (runs[r].pc \in {"fetch", "blob"}
              \/ runs[r].outcome \in {"noUri", "completed", "fetchError", "blobError"})
               => runs[r].lastDone
        /\ (runs[r].pc \notin {"unused", "reading", "analyze", "submit"}
              /\ runs[r].outcome = "none" /\ ~runs[r].lastDone)
               => runs[r].pc \in {"sleep", "poll"}
        /\ runs[r].pc = "sleep" => ENABLED pollTimer(r)
        /\ (runs[r].pc \in {"sleep", "poll"} /\ Sole(r)) => state.status = "generating"

C16_Witness ==
    \E r \in Runs :
        /\ runs[r].pc = "sleep"
        /\ runs[r].notDone = MaxTicks
        /\ Sole(r)
        /\ state.status = "generating"

\* C17: right after reset no object URL created by an earlier run is still
\* unreleased.
C17_UrlsReleasedAfterReset == lastOp.op = "reset" => objectUrls = {}

\* C19: a run returns a video only if the media fetch answered with a
\* success status.
C19_VideoOnlyFromSuccessfulFetch ==
    \A r \in Runs : runs[r].outcome = "completed" => runs[r].fetchOk

\* C13 (as stated): processImage has been invoked only if hasSelectedApiKey
\* has reported true.
C13_PipelineOnlyAfterKeyReported ==
    \A r \in Runs : runs[r].pc \notin {"unused", "reading"} => gate.reported

\* C13 (amended): the main screen is shown, and processImage has been
\* invoked, only if hasSelectedApiKey has reported true or a call of
\* openSelectKey has returned, with a key chosen in it or not.
C13_PipelineOnlyAfterKeyReportedOrSelectorClosed ==
    /\ hasKey => gate.reported \/ gate.opened
    /\ \A r \in Runs : runs[r].pc \notin {"unused", "reading"} => gate.reported \/ gate.opened

C13_Witness ==
    /\ \E r \in Runs : runs[r].pc = "analyze"
    /\ gate.opened
    /\ ~gate.selected
    /\ ~gate.reported

\* C18: once CameraCapture has captured, been cancelled or been unmounted,
\* no camera track acquired by it is running.
C18_CameraReleased ==
    (lastOp.op \in {"capture", "stopCamera"} \/ ~Shown(state.status, hasKey))
        => camera.tracks = {}

====
